---- MODULE Spec2Model ----
(***************************************************************************)
(* Command queue and flow controller of the hpgl Plotter (src/hpgl.js):    *)
(* queue(), _processQueue(), send(), getStatus(), _stopAndEmptyQueue() and *)
(* the "data" events of the serial transport.                              *)
(*                                                                         *)
(* JavaScript runs one callback at a time, so every action below is one    *)
(* whole callback: an API call, a timer firing, or one "data" event with   *)
(* all the once-listeners it triggers.  Timers are untimed: a pending      *)
(* timer may fire at any moment.  Strings are sequences of one-character   *)
(* strings; "ESC" stands for the single character 0x1B and "ETX" for 0x03. *)
(***************************************************************************)
EXTENDS Integers, Sequences, FiniteSets, TLC

VARIABLES
  connected,       \* this.connected
  outputFile,      \* this._outputFile is set
  buffer,          \* this.characteristics.buffer (0: not known yet)
  queue,           \* this._queue
  queueTimeOutId,  \* this._queueTimeOutId: "zero", "armed" (handle of a pending
                   \* timer) or "spent" (handle of a cancelled timer)
  strayTimers,     \* pending drain timers whose handle was overwritten
  listeners,       \* once("data") listeners, in registration order
  wire,            \* responses the device still has to deliver, oldest first
  crashed,         \* an exception escaped from a timer or data callback
  calls,           \* number of API calls made so far
  nextId,          \* next serial number given to an accepted instruction
  transmitted,     \* serial numbers of the queued instructions written, in order
  cbCount,         \* how often the callback of each queue() call was invoked
  cleared,         \* _stopAndEmptyQueue() has run
  lastCall,        \* what the last step was, and what it did
  log,             \* callbacks run by the last "data" event
  deviceIdle,      \* the device has emptied its buffer since the last instruction
  ready,           \* this.ready
  characteristics, \* model whose entry of Models this.characteristics is, or
                   \* "undefined"
  paper,           \* this.paper
  orientation,     \* this.orientation
  handshake,       \* what the callbacks of connect() share: its options, its
                   \* timers, getModel's cancel flag, the transport's listeners
  outcome,         \* calls of the connect callback and "ready" events so far
  discarded,       \* serial numbers of the instructions _stopAndEmptyQueue dropped
  rx,              \* this._buffer, with the characters read from the transport
                   \* and the "data" events emitted so far
  Models           \* the buffer of each entry of the Models table, which all
                   \* Plotter instances of the module share

vars == <<connected, outputFile, buffer, queue, queueTimeOutId, strayTimers,
          listeners, wire, crashed, calls, nextId, transmitted, cbCount,
          cleared, lastCall, log, deviceIdle, ready, characteristics, paper,
          orientation, handshake, outcome, discarded, rx, Models>>

-----------------------------------------------------------------------------
(* Bounds *)

MaxCalls == 3        \* API calls (queue, getStatus) per behaviour
MaxPending == 2      \* a query is issued only while fewer listeners are pending
BufferSize == 4      \* input buffer capacity reported by the device

-----------------------------------------------------------------------------
(* Characters and strings *)

RS232_PREFIX == <<"ESC", ".">>
ETX == "ETX"

PU == <<"P", "U">>
OS == <<"O", "S">>

\* An instruction of n >= 2 characters: "PA" followed by digits.
Pad(n) == [i \in 1..n |-> IF i = 1 THEN "P" ELSE IF i = 2 THEN "A" ELSE "1"]

StartsWith(s, p) == Len(s) >= Len(p) /\ SubSeq(s, 1, Len(p)) = p

\* The delimiters of /[;\n\u0003]/
Delimiters == {";", "\n", ETX}

\* s.split(delimiters): the pieces between the delimiters of s, in order.
Pieces(s, delimiters) ==
  LET cuts == {i \in 1..Len(s) : s[i] \in delimiters}
      starts == {1} \cup {i + 1 : i \in cuts}
      StartOf(k) == CHOOSE i \in starts : Cardinality({j \in starts : j < i}) = k - 1
      EndOf(i) == IF \E c \in cuts : c >= i
                  THEN (CHOOSE c \in cuts : c >= i /\ \A d \in cuts : d >= i => c <= d) - 1
                  ELSE Len(s)
  IN [k \in 1..Cardinality(starts) |-> SubSeq(s, StartOf(k), EndOf(StartOf(k)))]

\* instruction.split(/[;\n\u0003]/)
Split(s) == Pieces(s, Delimiters)

\* .filter(n => n.length >= 2)
FilterShort(pieces) == SelectSeq(pieces, LAMBDA n : Len(n) >= 2)

Commands(instruction) == FilterShort(Split(instruction))

\* A send() that terminates every instruction alike.
AlwaysSemicolon(instruction) == Append(instruction, ";")

\* send(): the termination character appended to an instruction.
Terminate(instruction) ==
  IF StartsWith(instruction, <<"L", "B">>) THEN Append(instruction, ETX)
  ELSE IF StartsWith(instruction, RS232_PREFIX)
       THEN IF Len(instruction) > 3 THEN Append(instruction, ":") ELSE instruction
       ELSE Append(instruction, ";")

-----------------------------------------------------------------------------
(* Callbacks.  A callback is described by what it is: none (null or        *)
(* undefined), the caller's callback of queue() call number `call`, the    *)
(* buffer-space reply handler of a drain cycle (with its retry timer `to`  *)
(* pending or not), or the status decoder of getStatus().                  *)

NoCallback == [type |-> "none", call |-> 0, to |-> FALSE]
UserCallback(c) == [type |-> "user", call |-> c, to |-> FALSE]
ReplyHandler == [type |-> "B", call |-> 0, to |-> TRUE]
StatusDecoder == [type |-> "status", call |-> 0, to |-> FALSE]
\* abort()'s callback of send(ESC.K): emits "aborted", calls the caller's
\* callback.
AbortedCallback == [type |-> "aborted", call |-> 0, to |-> FALSE]
\* disconnect()'s callback of send("IN"): closes the transport.
CloseCallback == [type |-> "close", call |-> 0, to |-> FALSE]

\* A once("data") listener: the one send() registers for an awaiting write
\* (w identifies the write), or the one _processQueue registers to re-arm the
\* drain timer.
SendListener(cb, w) == [kind |-> "send", cb |-> cb, w |-> w]
RearmListener == [kind |-> "rearm", cb |-> NoCallback, w |-> 0]

\* The plotter as a record, so that the code's functions are operators on it.
Here ==
  [connected |-> connected, outputFile |-> outputFile, buffer |-> buffer,
   queue |-> queue, queueTimeOutId |-> queueTimeOutId,
   strayTimers |-> strayTimers, listeners |-> listeners, wire |-> wire,
   nextId |-> nextId, transmitted |-> transmitted, cbCount |-> cbCount,
   cleared |-> cleared, ready |-> ready, characteristics |-> characteristics,
   paper |-> paper, orientation |-> orientation, handshake |-> handshake,
   outcome |-> outcome, discarded |-> discarded, models |-> Models,
   log |-> <<>>, writes |-> <<>>, threw |-> "none", ctx |-> 0]

\* F(e), with e evaluated once.
Then(e, F(_)) == CHOOSE r \in {F(x) : x \in {e}} : TRUE

\* An identifier for a new awaiting write, unused by the pending ones.
UsedW(p) == {p.listeners[i].w : i \in 1..Len(p.listeners)}
              \cup {p.wire[i].w : i \in 1..Len(p.wire)}
FreshW(p) == CHOOSE n \in 1..(Cardinality(UsedW(p)) + 1) :
               n \notin UsedW(p) /\ \A m \in 1..(n - 1) : m \in UsedW(p)

-----------------------------------------------------------------------------
(* Timers *)

\* this._queueTimeOutId = setTimeout(this._processQueue.bind(this), QUEUE_DELAY)
\* A timer that is still pending when its handle is overwritten stays pending.
SetQueueTimeout(p) ==
  [p EXCEPT !.queueTimeOutId = "armed",
            !.strayTimers = IF p.queueTimeOutId = "armed" THEN @ + 1 ELSE @]

\* clearTimeout(this._queueTimeOutId): the handle itself is left as it is.
ClearQueueTimeout(p) ==
  [p EXCEPT !.queueTimeOutId = IF @ = "armed" THEN "spent" ELSE @]

\* _stopAndEmptyQueue()
StopAndEmptyQueue(p) ==
  [ClearQueueTimeout(p) EXCEPT
     !.queue = <<>>, !.cleared = TRUE,
     !.discarded = @ \cup {p.queue[i].id : i \in 1..Len(p.queue)}]

-----------------------------------------------------------------------------
(* send() *)

\* The callback of a write that awaits no response is run (here at once, when
\* the write is handed to the transport): the caller's callback of a queue()
\* call, or the closing of the transport by disconnect().
Invoke(p, cb) ==
  IF cb.type = "user" THEN [p EXCEPT !.cbCount[cb.call] = @ + 1]
  ELSE IF cb.type = "close"
       THEN [p EXCEPT !.connected = FALSE, !.handshake.transport = FALSE]
  ELSE p

\* this.transport.write(instruction)
Write(p, terminated) == [p EXCEPT !.writes = Append(@, terminated)]

\* instruction.length > this.characteristics.buffer, once the buffer is known
SendOverflows(p, terminated) == p.buffer # 0 /\ Len(terminated) > p.buffer

\* What the device answers to: every awaiting write yields one response.
WriteAwaiting(p, cb, kind) ==
  LET w == FreshW(p) IN
  [p EXCEPT !.listeners = Append(@, SendListener(cb, w)),
            !.wire = Append(@, [w |-> w, kind |-> kind])]

\* send(instruction, callback, waitForResponse); kind names the write for the
\* device ("B" buffer space, "O" status, "Q" a queued instruction).
Send(p, instruction, cb, waitForResponse, kind) ==
  IF ~p.connected /\ ~p.outputFile THEN [p EXCEPT !.threw = "Error"]
  ELSE IF p.connected
       THEN IF SendOverflows(p, Terminate(instruction))
            THEN [StopAndEmptyQueue(p) EXCEPT !.threw = "RangeError"]
            ELSE IF waitForResponse
                 THEN Write(WriteAwaiting(p, cb, kind), Terminate(instruction))
                 ELSE Invoke(Write(p, Terminate(instruction)), cb)
       ELSE Invoke(p, cb)

-----------------------------------------------------------------------------
(* queue() *)

\* A length check that also rejects an instruction filling the buffer exactly.
QueueOverflowsAtCapacity(p, command) ==
  p.buffer # 0 /\ Len(command) + 1 >= p.buffer

\* commands[i].length + 1 > this.characteristics.buffer, once the buffer is
\* known (the + 1 is the termination character send() will add)
QueueOverflows(p, command) == p.buffer # 0 /\ Len(command) + 1 > p.buffer

\* commands[i].startsWith("O") && options.ignoreOutputInstructions
Ignored(command, options) ==
  StartsWith(command, <<"O">>) /\ options.ignoreOutputInstructions

\* The command object pushed for commands[i]: only the last element of
\* `commands` gets the callback and the waitForResponse option.
NewCommand(commands, i, cb, options, id) ==
  [instruction |-> commands[i],
   callback |-> IF i = Len(commands) THEN cb ELSE NoCallback,
   waitForResponse |-> IF i = Len(commands) THEN options.waitForResponse ELSE FALSE,
   id |-> id]

\* The for loop of queue(), from index i on.
RECURSIVE QueueLoop(_, _, _, _, _)
QueueLoop(p, commands, i, cb, options) ==
  IF i > Len(commands) THEN p
  ELSE IF Ignored(commands[i], options)
       THEN QueueLoop(p, commands, i + 1, cb, options)
       ELSE IF QueueOverflows(p, commands[i])
            THEN [StopAndEmptyQueue(p) EXCEPT !.threw = "RangeError"]
            ELSE QueueLoop(
                   [p EXCEPT !.queue = Append(@, NewCommand(commands, i, cb, options, p.nextId)),
                             !.nextId = @ + 1],
                   commands, i + 1, cb, options)

\* A queue() that never arms the drain timer.
ArmNever(p) == p

\* if (this._queueTimeOutId === 0) this._queueTimeOutId = setTimeout(...)
ArmIfIdle(p) == IF p.queueTimeOutId = "zero" THEN SetQueueTimeout(p) ELSE p

\* queue(instruction, callback, options)
QueueCall(p, instruction, cb, options) ==
  LET r == QueueLoop(p, Commands(instruction), 1, cb, options) IN
  IF r.threw # "none" THEN r ELSE ArmIfIdle(r)

-----------------------------------------------------------------------------
(* _processQueue() and the callbacks it installs *)

\* A queue that hands out its newest command.
ShiftNewest(q) == [command |-> q[Len(q)], rest |-> SubSeq(q, 1, Len(q) - 1)]

\* this._queue.shift()
Shift(q) == [command |-> Head(q), rest |-> Tail(q)]

\* this._queue[0].instruction.length <= data
Fits(command, data) == Len(command.instruction) <= data

\* A retry timer that only warns.
RetryGivesUp(p) == p

\* The retry timer's callback: warn and re-arm the drain timer.
RetryCallback(p) == SetQueueTimeout(p)

\* The listener _processQueue registers after sending a command that waits
\* for a response.
RearmCallback(p) == SetQueueTimeout(p)

\* The code of the reply handler after send(): hold the queue until the next
\* data event if the command waits for a response, else go on if more
\* commands are queued.
AfterSend(p, command) ==
  IF command.waitForResponse
  THEN [p EXCEPT !.listeners = Append(@, RearmListener)]
  ELSE IF p.queue # <<>> THEN SetQueueTimeout(p) ELSE p

\* What the device is asked by a queued instruction: its model and options
\* (ESC.A), its model (OI), its buffer size (ESC.L), or something else.
KindOf(instruction) ==
  IF instruction = Append(RS232_PREFIX, "A") THEN "A"
  ELSE IF instruction = <<"O", "I">> THEN "I"
  ELSE IF instruction = Append(RS232_PREFIX, "L") THEN "L"
  ELSE "Q"

\* The oldest command is taken from the queue and sent.
SendHead(p) ==
  Then(Shift(p.queue), LAMBDA s :
    Then(Send([p EXCEPT !.queue = s.rest], s.command.instruction,
              s.command.callback, s.command.waitForResponse,
              KindOf(s.command.instruction)),
         LAMBDA q : IF q.threw # "none" THEN q
                    ELSE AfterSend([q EXCEPT !.transmitted = Append(@, s.command.id)],
                                   s.command)))

\* The callback given to send(ESC.B): clearTimeout(to), then the head of the
\* queue is sent if it fits, else the drain timer is re-armed.  Reading the
\* head of an empty queue throws a TypeError.
ReplyCallback(p, data) ==
  IF p.queue = <<>> THEN [p EXCEPT !.threw = "TypeError"]
  ELSE IF Fits(Head(p.queue), data) THEN SendHead(p)
       ELSE SetQueueTimeout(p)

\* Drain timers pending.
Timers(p) == p.strayTimers + (IF p.queueTimeOutId = "armed" THEN 1 ELSE 0)

\* What a callback run by a data event was given and did, from the plotter
\* before (p) and after (q): the kind of write the response answers, whether
\* that write is the callback's own, the data, the length of the head of the
\* queue, whether an instruction was written and in how many bytes, whether a
\* drain timer was set.
Entry(L, resp, p, q) ==
  [type |-> L.cb.type, call |-> L.cb.call, own |-> (L.w = resp.w),
   kind |-> resp.kind, data |-> resp.data,
   headLen |-> IF p.queue = <<>> THEN 0 ELSE Len(Head(p.queue).instruction),
   sent |-> Len(q.transmitted) > Len(p.transmitted),
   bytes |-> IF Len(q.transmitted) > Len(p.transmitted)
             THEN Len(Terminate(Head(p.queue).instruction)) ELSE 0,
   rearmed |-> Timers(q) > Timers(p)]

-----------------------------------------------------------------------------
(* connect() and the handshake.  A response of the device is an integer: a *)
(* number it printed, or the negative code of a model name (which, like    *)
(* any text, is no number: comparisons with it are false and the RS-232    *)
(* error decoder reads it as an unknown error).  -7475 stands for "7475A"  *)
(* and -74750 for "7475A," followed by more fields, as ESC.A is answered.  *)

\* F(e) unless e threw; e is evaluated once.
Do(e, F(_)) == Then(e, LAMBDA q : IF q.threw # "none" THEN q ELSE F(q))

\* A lookup that leaves the profile undefined for a model it does not have.
ModelOrUndefined(data) ==
  IF data = -7475 THEN "7475A" ELSE IF data = -7470 THEN "7470A" ELSE "undefined"

\* Models[data], or Models["GENERIC"] if there is no such model (the
\* large-format models of the table are not among the devices modelled)
ModelOf(data) ==
  IF data = -7475 THEN "7475A"
  ELSE IF data = -7470 THEN "7470A"
  ELSE IF data = -7440 THEN "7440A"
  ELSE IF data = -7550 THEN "7550A"
  ELSE "GENERIC"

\* data.split(",")[0]
FirstField(data) == IF data <= -10000 THEN -((-data) \div 10) ELSE data

\* Models[model].buffer
ModelBuffer(model) ==
  IF model = "7475A" THEN 1024
  ELSE IF model = "7470A" THEN 255
  ELSE IF model = "7550A" THEN 12800
  ELSE 60

\* The buffers of the Models table as the module defines it.
ModelsTable ==
  [model \in {"7475A", "7470A", "7550A", "GENERIC"} |-> ModelBuffer(model)]

\* The table once a plotter whose profile is the entry of `model` has stored
\* `size` in this.characteristics.buffer: the profile is the entry itself.
Stored(table, model, size) ==
  IF model \in DOMAIN table THEN [table EXCEPT ![model] = size] ELSE table

\* Models[model].papers.list
PapersList(model) ==
  IF model \in {"7475A", "7550A", "GENERIC"} THEN {"A", "B", "A4", "A3"}
  ELSE {"A", "A4"}

\* Models[model].papers[paper].psCode, "" if it has none
PsCode(model, size) ==
  IF model # "7475A" THEN ""
  ELSE IF size \in {"A", "A4"} THEN "4" ELSE "0"

\* Models[model].instructions.includes("RO")
HasRO(model) == model # "7470A"

ORIENTATIONS == {"portrait", "landscape"}

\* String.prototype.toUpperCase / toLowerCase on the option values used here
ToUpperCase(t) == IF t = "a3" THEN "A3" ELSE IF t = "a4" THEN "A4" ELSE t
ToLowerCase(t) == IF t = "Portrait" THEN "portrait" ELSE t

\* A decoder that reports no error whatever the device answered.
AlwaysNoError(data) == 0

\* The code getRs232Error() passes to its callback: parseInt(data), 0 for an
\* empty response, 99 for anything but 0 and 10..16.
Rs232Code(data) == IF data = 0 \/ data \in 10..16 THEN data ELSE 99

\* this.characteristics.buffer = data, as the length checks read it: a
\* response that is no positive number makes every comparison false.
BufferOf(data) == IF data > 0 THEN data ELSE 0

WaitForResponse == [waitForResponse |-> TRUE, ignoreOutputInstructions |-> FALSE]
NoOptions == [waitForResponse |-> FALSE, ignoreOutputInstructions |-> FALSE]

ProbeCallback == [type |-> "probe", call |-> 0, to |-> FALSE]
ModelCallback == [type |-> "model", call |-> 0, to |-> FALSE]
FlushCallback == [type |-> "flush", call |-> 0, to |-> FALSE]
IdentifyCallback == [type |-> "identify", call |-> 0, to |-> FALSE]
ErrorCallback == [type |-> "error", call |-> 0, to |-> FALSE]
BufferCallback == [type |-> "buffer", call |-> 0, to |-> FALSE]

\* A callback of the handshake is a closure of one connect() call: `call` is
\* the number of that call, 0 for the first one, and `ctx` is the call whose
\* closure is running.
For(cb, p) == [cb EXCEPT !.call = p.ctx]

\* timeoutId and cancel of the getModel() call of the running closure.
ModelTimer(p, timeoutId, cancel) ==
  IF p.ctx = 0
  THEN [p EXCEPT !.handshake.timeoutId = timeoutId, !.handshake.cancel = cancel]
  ELSE [p EXCEPT !.handshake.second = [timeoutId |-> timeoutId, cancel |-> cancel]]
Cancel(p) == IF p.ctx = 0 THEN p.handshake.cancel ELSE p.handshake.second.cancel

\* The connect callback is called with or without an error; "ready" is
\* emitted; the configuration instructions have been queued.
Report(p, what) ==
  [p EXCEPT !.outcome = Append(@, what),
            !.handshake.called = IF what \in {"ok", "error"}
                                 THEN Append(@, p.ctx) ELSE @]

\* fail(err) of connect(): this.transport.isOpen() is a TypeError once
\* disconnect() has set the transport to undefined.
\* The listeners it removes are those of its own connect() call: run for an
\* earlier call it closes the transport of the present one and leaves the
\* present listeners installed.
Fail(p) ==
  IF ~p.handshake.transport THEN [p EXCEPT !.threw = "TypeError"]
  ELSE IF p.ctx # p.handshake.attempt
       THEN Report([p EXCEPT !.connected = FALSE], "error")
       ELSE Report([p EXCEPT !.connected = FALSE, !.handshake.installed = FALSE,
                             !.handshake.stage = "failed"], "error")

\* getRs232Error(callback): send(ESC.E, decoder, true)
GetRs232Error(p, cb) == Send(p, Append(RS232_PREFIX, "E"), cb, TRUE, "E")

\* getModel(callback): the fallback timer is set and ESC.A queued.
GetModel(p) ==
  QueueCall(ModelTimer(p, TRUE, FALSE),
            Append(RS232_PREFIX, "A"), For(ModelCallback, p), WaitForResponse)

\* _configurePlottingEnvironment(options, callback)
ConfigurePlottingEnvironment(p) == GetModel(p)

\* initialize(options, callback)
Initialize(p) ==
  Do(Send([p EXCEPT !.handshake.stage = "initializing"],
          Append(RS232_PREFIX, "J"), NoCallback, FALSE, "J"), LAMBDA q :
  Do(Send(q, Append(RS232_PREFIX, "K"), NoCallback, FALSE, "K"),
     ConfigurePlottingEnvironment))

\* The callback connect() gives to getRs232Error()
\* clearTimeout(timeout) clears the probe timer of the same connect() call.
ProbeCleared(p) ==
  IF p.ctx = p.handshake.attempt THEN [p EXCEPT !.handshake.timeout = FALSE] ELSE p
Probed(p, data) ==
  IF Rs232Code(data) # 0 THEN Fail(ProbeCleared(p))
  ELSE Initialize(ProbeCleared(p))

\* The callback _configurePlottingEnvironment gives to getModel(), up to the
\* second getRs232Error().
ModelKnown(p, data) ==
  LET model == ModelOf(data)
      o == p.handshake.options
      q == [p EXCEPT
              !.characteristics = model,
              !.buffer = IF model \in DOMAIN p.models THEN p.models[model] ELSE 0,
              !.paper = IF o.paper # "" /\ ToUpperCase(o.paper) \in PapersList(model)
                        THEN ToUpperCase(o.paper) ELSE @,
              !.orientation = IF o.orientation # ""
                                   /\ ToLowerCase(o.orientation) \in ORIENTATIONS
                              THEN ToLowerCase(o.orientation) ELSE @]
  IN GetRs232Error(q, For(ErrorCallback, p))

\* getModel's callback is called with the answer to a query.
Resolved(p, query, data) ==
  [p EXCEPT !.handshake.resolved = Append(@, [query |-> query, data |-> data])]

\* getModel's callback of queue(ESC.A): clearTimeout(timeoutId); the model is
\* passed on unless the fallback has started.
ModelReceived(p, data) ==
  IF Cancel(p) THEN ModelTimer(p, FALSE, TRUE)
  ELSE ModelKnown(Resolved(ModelTimer(p, FALSE, FALSE), "ESC.A", FirstField(data)),
                  FirstField(data))

\* getModel's callback of queue(OI)
Identified(p, data) == ModelKnown(Resolved(p, "OI", data), data)

\* getModel's fallback: the timer's callback, and the callback of its ESC.E.
ModelFallback(p) ==
  Send(ModelTimer(p, FALSE, TRUE),
       Append(RS232_PREFIX, "E"), For(FlushCallback, p), TRUE, "E")
Flushed(p) == QueueCall(p, <<"O", "I">>, For(IdentifyCallback, p), WaitForResponse)

\* The callback _configurePlottingEnvironment gives to the second
\* getRs232Error(): an error goes to the connect callback, else ESC.L is queued.
ErrorChecked(p, data) ==
  IF Rs232Code(data) # 0 THEN Report(p, "error")
  ELSE QueueCall(p, Append(RS232_PREFIX, "L"), For(BufferCallback, p), WaitForResponse)

\* The connect callback of an application that draws as soon as it is called.
ConnectCallback(p) ==
  IF p.handshake.options.draw
  THEN QueueCall(Report(p, "ok"), PU, NoCallback, NoOptions)
  ELSE Report(p, "ok")

\* _onReady(callback)
OnReady(p) ==
  Do(ConnectCallback([p EXCEPT !.ready = TRUE, !.handshake.stage = "done"]),
     LAMBDA q : Report(q, "ready"))

\* The paper and rotation instructions of the configuration step.
SelectPaper(p) ==
  IF PsCode(p.characteristics, p.paper) # ""
  THEN QueueCall(p, <<"P", "S", PsCode(p.characteristics, p.paper)>>,
                 NoCallback, NoOptions)
  ELSE p
Rotate(p) ==
  IF p.orientation = "landscape"
  THEN QueueCall(p, <<"R", "O", "0">>, NoCallback, NoOptions)
  ELSE IF HasRO(p.characteristics)
       THEN QueueCall(p, <<"R", "O", "9", "0">>, NoCallback, NoOptions)
       ELSE [p EXCEPT !.threw = "Error"]

\* The callback of queue(ESC.L): the buffer size is stored, the plotter is
\* ready, IN is sent, then PS, RO, IP and IW are queued.
BufferReceived(p, data) ==
  Do(OnReady([p EXCEPT !.buffer = BufferOf(data),
                       !.models = Stored(@, p.characteristics, BufferOf(data))]),
     LAMBDA q1 :
  Do(Send(q1, <<"I", "N">>, NoCallback, FALSE, "IN"), LAMBDA q2 :
  Do(SelectPaper(q2), LAMBDA q3 :
  Do(Rotate(q3), LAMBDA q4 :
  Do(QueueCall(q4, <<"I", "P">>, NoCallback, NoOptions), LAMBDA q5 :
  Do(QueueCall(q5, <<"I", "W">>, NoCallback, NoOptions), LAMBDA q6 :
     Report(q6, "configured")))))))

\* The callback send() was given is called with the data.
Callback(p, cb, data) ==
  IF cb.type = "B" THEN ReplyCallback(p, data)
  ELSE IF cb.type = "probe" THEN Probed([p EXCEPT !.ctx = cb.call], data)
  ELSE IF cb.type = "model" THEN ModelReceived([p EXCEPT !.ctx = cb.call], data)
  ELSE IF cb.type = "flush" THEN Flushed([p EXCEPT !.ctx = cb.call])
  ELSE IF cb.type = "identify" THEN Identified([p EXCEPT !.ctx = cb.call], data)
  ELSE IF cb.type = "error" THEN ErrorChecked([p EXCEPT !.ctx = cb.call], data)
  ELSE IF cb.type = "buffer" THEN BufferReceived([p EXCEPT !.ctx = cb.call], data)
  ELSE Invoke(p, cb)

\* One once("data") listener is called with the response.
RunListener(p, L, resp) ==
  IF L.kind = "rearm" THEN RearmCallback(p)
  ELSE Then(Callback(p, L.cb, resp.data),
            LAMBDA q : [q EXCEPT !.log = Append(@, Entry(L, resp, p, q))])

\* this.emit("data", ...): the n listeners registered when the event is emitted
\* are removed and called in registration order; listeners registered meanwhile
\* wait for the next event; an exception ends the emit.
RECURSIVE EmitData(_, _, _)
EmitData(p, n, resp) ==
  IF n = 0 \/ p.threw # "none" THEN p
  ELSE Then(RunListener([p EXCEPT !.listeners = Tail(@)], Head(p.listeners), resp),
            LAMBDA q : EmitData(q, n - 1, resp))

\* The branch of _processQueue for a plotter that only writes to a file: all
\* commands are sent at once.
RECURSIVE SendAll(_, _)
SendAll(p, q) ==
  IF q = <<>> \/ p.threw # "none" THEN p
  ELSE SendAll(Send(p, Head(q).instruction, Head(q).callback, FALSE, "Q"), Tail(q))

\* _processQueue()
ProcessQueue(p) ==
  LET p1 == [ClearQueueTimeout(p) EXCEPT !.queueTimeOutId = "zero"] IN
  IF p1.queue = <<>> THEN p1
  ELSE IF ~p1.connected /\ p1.outputFile
       THEN LET p2 == SendAll(p1, p1.queue) IN
            IF p2.threw # "none" THEN p2
            ELSE SetQueueTimeout([p2 EXCEPT !.queue = <<>>])
       ELSE Send(p1, Append(RS232_PREFIX, "B"), ReplyHandler, TRUE, "B")

\* An abort() that puts ESC.K in the queue.
AbortThroughQueue(p) ==
  QueueCall(StopAndEmptyQueue(p), Append(RS232_PREFIX, "K"), AbortedCallback,
            [waitForResponse |-> FALSE, ignoreOutputInstructions |-> FALSE])

\* abort(callback)
AbortCall(p) ==
  Send(StopAndEmptyQueue(p), Append(RS232_PREFIX, "K"), AbortedCallback, FALSE, "K")

\* A disconnect() that keeps the profile.
KeepProfile(p) == p

\* The profile, paper and orientation are set back to their defaults.
ResetProfile(p) ==
  [p EXCEPT !.characteristics = "undefined", !.buffer = 0,
            !.orientation = "landscape", !.paper = "A"]

\* stopCapturingToFile()
StopCapturingToFile(p) ==
  [(IF ~p.connected THEN ResetProfile(p) ELSE p) EXCEPT !.outputFile = FALSE]

\* startCapturingToFile(path) without options: PS, RO, IP and IW go to the
\* file; reading the profile of a plotter that has none yet throws.
StartCapturingToFile(p) ==
  LET q == IF p.connected THEN [p EXCEPT !.outputFile = TRUE]
           ELSE [p EXCEPT !.outputFile = TRUE, !.characteristics = "GENERIC",
                          !.buffer = p.models["GENERIC"]]
  IN IF q.characteristics = "undefined" THEN [q EXCEPT !.threw = "TypeError"]
     ELSE IF q.orientation # "landscape" /\ ~HasRO(q.characteristics)
          THEN [q EXCEPT !.threw = "Error"]
          ELSE q

\* connect(transport, options, callback), up to transport.open()
ConnectCall(p, options) ==
  [StopCapturingToFile([p EXCEPT !.handshake.transport = TRUE]) EXCEPT
     !.handshake.options = options, !.handshake.opening = TRUE,
     !.handshake.stage = "opening"]

\* The callback of transport.open(): on success the listeners are installed,
\* the probe's timer is set and ESC.E is sent.
OpenCallback(p, error) ==
  IF error \/ ~p.handshake.transport
  THEN Fail([p EXCEPT !.handshake.opening = FALSE, !.ctx = p.handshake.attempt])
  ELSE GetRs232Error([p EXCEPT !.connected = TRUE, !.handshake.opening = FALSE,
                               !.handshake.installed = TRUE,
                               !.handshake.timeout = TRUE,
                               !.handshake.stage = "probing"],
                     [ProbeCallback EXCEPT !.call = p.handshake.attempt])

\* The probe's timer fires after DEVICE_RS232_DELAY.
ProbeTimedOut(p) ==
  Fail([p EXCEPT !.handshake.timeout = FALSE, !.ctx = p.handshake.attempt])

\* disconnect(callback)
DisconnectCall(p) ==
  LET q == IF ~p.outputFile THEN ResetProfile(p) ELSE p IN
  IF ~q.handshake.transport THEN q
  ELSE Do(AbortCall([q EXCEPT !.ready = FALSE]),
          LAMBDA r : Send(r, <<"I", "N">>, CloseCallback, FALSE, "IN"))

\* destroy(callback)
DestroyCall(p) == DisconnectCall(StopAndEmptyQueue(StopCapturingToFile(p)))

\* A second connect() on the same Plotter, with a new transport object and
\* the options of the first: nothing of the Plotter is reset but what
\* stopCapturingToFile() resets.
ReconnectCall(p) ==
  [ConnectCall(p, p.handshake.options) EXCEPT !.handshake.attempt = @ + 1]

\* _onError(error), the transport's "error" listener: "error" is emitted,
\* which throws the error if the application listens to no "error" event.
OnError(p, listening) ==
  IF listening THEN [p EXCEPT !.handshake.errored = TRUE]
  ELSE [p EXCEPT !.handshake.errored = TRUE, !.threw = "Error"]

-----------------------------------------------------------------------------
(* Numbers as the strings JavaScript makes of them, and back *)

DigitChars == <<"0", "1", "2", "3", "4", "5", "6", "7", "8", "9">>

\* String(n) for a natural number n
RECURSIVE Decimal(_)
Decimal(n) ==
  IF n < 10 THEN <<DigitChars[n + 1]>>
  ELSE Append(Decimal(n \div 10), DigitChars[(n % 10) + 1])

\* String(n) for an integer n
NumberToString(n) == IF n < 0 THEN <<"-">> \o Decimal(-n) ELSE Decimal(n)

\* numbers.join(","), the halves of the list being joined first
RECURSIVE Join(_)
Join(numbers) ==
  IF numbers = <<>> THEN <<>>
  ELSE IF Len(numbers) = 1 THEN NumberToString(numbers[1])
  ELSE LET half == Len(numbers) \div 2
       IN Join(SubSeq(numbers, 1, half)) \o <<",">>
            \o Join(SubSeq(numbers, half + 1, Len(numbers)))

IsDigit(c) == \E d \in 1..10 : DigitChars[d] = c
DigitValue(c) == (CHOOSE d \in 1..10 : DigitChars[d] = c) - 1

\* The longest prefix of s made of digits.
RECURSIVE DigitsPrefix(_)
DigitsPrefix(s) ==
  IF s = <<>> \/ ~IsDigit(Head(s)) THEN <<>>
  ELSE <<Head(s)>> \o DigitsPrefix(Tail(s))

\* The number a string of digits writes.
RECURSIVE DigitsValue(_)
DigitsValue(s) ==
  IF s = <<>> THEN 0
  ELSE 10 * DigitsValue(SubSeq(s, 1, Len(s) - 1)) + DigitValue(s[Len(s)])

\* What parseInt() gives: NaN, or a number.
NaN == [nan |-> TRUE, value |-> 0]
Number(n) == [nan |-> FALSE, value |-> n]

\* parseInt(s): an optional sign, then the digits up to the first character
\* that is none; NaN if there is no digit.  A value that is no string is
\* parsed as the string JavaScript makes of it.
ParseInt(s) ==
  LET negative == s # <<>> /\ Head(s) = "-"
      unsigned == IF s # <<>> /\ Head(s) \in {"-", "+"} THEN Tail(s) ELSE s
      digits == DigitsPrefix(unsigned)
  IN IF digits = <<>> THEN NaN
     ELSE IF negative THEN Number(-DigitsValue(digits))
     ELSE Number(DigitsValue(digits))

-----------------------------------------------------------------------------
(* Coordinates *)

\* Models[model].papers[size].short
Short(model, size) ==
  IF model = "7475A"
  THEN IF size = "A" THEN 7962 ELSE IF size = "B" THEN 10365
       ELSE IF size = "A4" THEN 7721 ELSE 11040
  ELSE IF model = "7440A" THEN 7640
  ELSE IF model = "7470A" THEN 7650
  ELSE IF size = "A" THEN 7840 ELSE IF size = "B" THEN 10170
       ELSE IF size = "A4" THEN 7600 ELSE 10870

\* Models[model].papers[size].margins is defined
HasMargins(model, size) ==
  \/ model = "7440A" /\ size = "A"
  \/ model = "7475A" /\ size \in {"A", "B"}

\* Models[model].papers[size].margins[orientation], left and top
Margins(model, size, o) ==
  IF model = "7440A"
  THEN IF o = "portrait" THEN [left |-> 640, top |-> 240]
       ELSE [left |-> 640, top |-> 640]
  ELSE IF size = "A"
       THEN IF o = "portrait" THEN [left |-> 112, top |-> 348]
            ELSE [left |-> 348, top |-> 562]
       ELSE IF o = "portrait" THEN [left |-> 463, top |-> 112]
            ELSE [left |-> 562, top |-> 463]

\* Math.round(value * 10 * res) for a whole number of centimetres; the
\* resolution is 40 in every profile.
ToPlotterUnits(value) == value * 10 * 40

\* A conversion that takes the margins of a paper that defines none as zero.
ZeroMarginCoordinates(p, x, y) ==
  LET m == IF HasMargins(p.characteristics, p.paper)
           THEN Margins(p.characteristics, p.paper, p.orientation)
           ELSE [left |-> 0, top |-> 0]
      short == Short(p.characteristics, p.paper)
  IN IF p.orientation = "landscape"
     THEN [threw |-> "none", x |-> x - m.left, y |-> short - (y - m.top)]
     ELSE [threw |-> "none", x |-> short - (x - m.left), y |-> y - m.top]

\* _toAbsoluteHpglCoordinates(x, y): reading a property of the margins a
\* paper does not define, or of the papers of an undefined profile, throws.
ToAbsoluteHpglCoordinates(p, x, y) ==
  IF p.characteristics = "undefined" \/ ~HasMargins(p.characteristics, p.paper)
  THEN [threw |-> "TypeError", x |-> x, y |-> y]
  ELSE LET m == Margins(p.characteristics, p.paper, p.orientation)
           short == Short(p.characteristics, p.paper)
       IN IF p.orientation = "landscape"
          THEN [threw |-> "none", x |-> x - m.left, y |-> short - (y - m.top)]
          ELSE [threw |-> "none", x |-> short - (x - m.left), y |-> y - m.top]

\* A _toHpglInteger() that does not clamp.
Unclamped(value) == ParseInt(NumberToString(value)).value

\* _toHpglInteger(value) for an integer value: parseInt() reads the string
\* of the value, and the result is clamped.
ToHpglInteger(value) ==
  LET parsed == ParseInt(NumberToString(value)).value IN
  IF parsed > 32767 THEN 32767
  ELSE IF parsed < -32768 THEN -32768
  ELSE parsed

-----------------------------------------------------------------------------
(* drawLines() *)

\* The test that starts a new chunk, for a drawLines() that never does.
NeverOverfull(p, instruction) == FALSE

\* instruction.length > this.characteristics.buffer
Overfull(p, instruction) == Len(instruction) > p.buffer

\* "PA" + chunk.join(",")
PA(chunk) == <<"P", "A">> \o Join(chunk)

\* The for loop of drawLines() from position i on: each point is converted
\* and pushed to the current chunk, a new chunk being started when the
\* instruction of the current one with the point would be too long.
RECURSIVE ChunkLoop(_, _, _, _)
ChunkLoop(p, positions, i, chunks) ==
  IF i > Len(positions) THEN [threw |-> "none", chunks |-> chunks]
  ELSE LET c == ToAbsoluteHpglCoordinates(p, ToPlotterUnits(positions[i]),
                                          ToPlotterUnits(positions[i + 1]))
           current == chunks[Len(chunks)]
           instruction == Append(PA(current \o <<c.x, c.y>>), ";")
       IN IF c.threw # "none" THEN [threw |-> c.threw, chunks |-> chunks]
          ELSE IF Overfull(p, instruction)
               THEN ChunkLoop(p, positions, i + 2, Append(chunks, <<c.x, c.y>>))
               ELSE ChunkLoop(p, positions, i + 2,
                              [chunks EXCEPT ![Len(chunks)] = @ \o <<c.x, c.y>>])

\* chunks.forEach((chunk) => this.queue("PA" + chunk.join(",")))
RECURSIVE QueueChunks(_, _)
QueueChunks(p, chunks) ==
  IF chunks = <<>> \/ p.threw # "none" THEN p
  ELSE QueueChunks(QueueCall(p, PA(Head(chunks)), NoCallback, NoOptions), Tail(chunks))

\* A line pattern taken as parsed, without the validity check.
UncheckedPattern(given) == ParseInt(given).value

\* options.linePattern after the validity check
LinePattern(given) ==
  LET parsed == ParseInt(given) IN
  IF parsed.nan THEN 7
  ELSE IF parsed.value < 0 \/ parsed.value > 7 THEN 7
  ELSE parsed.value

\* The LT instruction drawLines() queues.
LT(pattern) ==
  IF pattern = 7 THEN <<"L", "T">> ELSE <<"L", "T">> \o NumberToString(pattern)

\* drawLines(positions, {linePattern: given}, callback)
DrawLinesCall(p, positions, given, cb) ==
  Do(QueueCall(p, LT(LinePattern(given)), NoCallback, NoOptions), LAMBDA q :
  Then(ChunkLoop(q, positions, 1, <<<<>>>>), LAMBDA r :
    IF r.threw # "none" THEN [q EXCEPT !.threw = r.threw]
    ELSE IF r.chunks[1] = <<>> THEN q
    ELSE Do(QueueCall(q, <<"P", "D">>, NoCallback, NoOptions), LAMBDA q1 :
         Do(QueueChunks(q1, r.chunks), LAMBDA q2 :
            QueueCall(q2, PU, cb, NoOptions)))))

\* getStatus(callback)
GetStatusCall(p) == Send(p, Append(RS232_PREFIX, "O"), StatusDecoder, TRUE, "O")

-----------------------------------------------------------------------------
(* Inputs of queue() *)

Options(w, i) == [waitForResponse |-> w, ignoreOutputInstructions |-> i]
Input(s, c, w, i) == [instruction |-> s, callback |-> c, options |-> Options(w, i)]

\* Inputs whose instructions pass the length check: one output instruction
\* whose response is awaited; a batch of two, the second exactly as long as the
\* buffer allows; a batch whose last instruction is skipped.
ValidInputs ==
  { Input(OS, TRUE, TRUE, FALSE),
    Input(PU \o <<"\n">> \o Pad(BufferSize - 1) \o <<";">>, TRUE, FALSE, FALSE),
    Input(PU \o <<";">> \o OS \o <<";">>, TRUE, FALSE, TRUE) }

\* A batch whose second instruction is one character too long.
LongInputs ==
  { Input(PU \o <<";">> \o Pad(BufferSize), TRUE, FALSE, FALSE) }

Inputs == ValidInputs \cup LongInputs

\* Free space or status word sent back by the device.
ReplyValues == 0..BufferSize

-----------------------------------------------------------------------------
(* Initial state: a connected plotter whose handshake is over, with the    *)
(* device's buffer size known, an empty queue and no timer.                *)

\* connect()'s options; no callback of connect() is pending.
ConnectOptions(pp, o, d) == [paper |-> pp, orientation |-> o, draw |-> d]
NoHandshake ==
  [options |-> ConnectOptions("", "", FALSE), transport |-> TRUE,
   opening |-> FALSE, installed |-> TRUE, timeout |-> FALSE,
   timeoutId |-> FALSE, cancel |-> FALSE, stage |-> "done", resolved |-> <<>>,
   errored |-> FALSE, attempt |-> 0,
   second |-> [timeoutId |-> FALSE, cancel |-> FALSE], called |-> <<>>,
   left |-> "none"]

\* this._buffer = "": nothing read from the transport yet.
NoInput == [buffer |-> <<>>, stream |-> <<>>, events |-> <<>>]

NoCall == [op |-> "none", call |-> 0, input |-> Input(<<>>, FALSE, FALSE, FALSE),
           threw |-> "none"]

Init ==
  /\ connected = TRUE
  /\ outputFile = FALSE
  /\ buffer = BufferSize
  /\ queue = <<>>
  /\ queueTimeOutId = "zero"
  /\ strayTimers = 0
  /\ listeners = <<>>
  /\ wire = <<>>
  /\ crashed = FALSE
  /\ calls = 0
  /\ nextId = 1
  /\ transmitted = <<>>
  /\ cbCount = [c \in 1..MaxCalls |-> 0]
  /\ cleared = FALSE
  /\ lastCall = NoCall
  /\ log = <<>>
  /\ deviceIdle = FALSE
  /\ ready = TRUE
  /\ characteristics = "GENERIC"
  /\ paper = "A"
  /\ orientation = "landscape"
  /\ handshake = NoHandshake
  /\ outcome = <<>>
  /\ discarded = {}
  /\ rx = NoInput
  /\ Models = Stored(ModelsTable, characteristics, buffer)

\* The plotter after a callback has run.
Becomes(p) ==
  /\ connected' = p.connected
  /\ outputFile' = p.outputFile
  /\ buffer' = p.buffer
  /\ queue' = p.queue
  /\ queueTimeOutId' = p.queueTimeOutId
  /\ strayTimers' = p.strayTimers
  /\ listeners' = p.listeners
  /\ wire' = p.wire
  /\ nextId' = p.nextId
  /\ transmitted' = p.transmitted
  /\ cbCount' = p.cbCount
  /\ cleared' = p.cleared
  /\ log' = p.log
  /\ ready' = p.ready
  /\ characteristics' = p.characteristics
  /\ paper' = p.paper
  /\ orientation' = p.orientation
  /\ handshake' = p.handshake
  /\ outcome' = p.outcome
  /\ discarded' = p.discarded
  /\ Models' = p.models
  /\ UNCHANGED rx

\* The record of a queue() call.
Did(call, input, p) ==
  [op |-> "queue", call |-> call, input |-> input, threw |-> p.threw]

-----------------------------------------------------------------------------
(* Actions *)

\* The application calls queue(); a RangeError goes back to the caller.
Queue(in) ==
  /\ ~crashed
  /\ calls < MaxCalls
  /\ \E p \in {QueueCall(Here, in.instruction,
                          IF in.callback THEN UserCallback(calls + 1) ELSE NoCallback,
                          in.options)} :
       /\ Becomes(p)
       /\ lastCall' = Did(calls + 1, in, p)
  /\ calls' = calls + 1
  /\ UNCHANGED <<crashed, deviceIdle>>

\* A query is issued only while fewer than MaxPending awaiting writes and
\* fewer than MaxPending responses are pending.
Outstanding == {i \in 1..Len(listeners) : listeners[i].kind = "send"}
MayQuery == Cardinality(Outstanding) < MaxPending /\ Len(wire) < MaxPending

\* The application calls getStatus().
GetStatus ==
  /\ ~crashed
  /\ calls < MaxCalls
  /\ MayQuery
  /\ \E p \in {GetStatusCall(Here)} :
       /\ Becomes(p)
       /\ lastCall' = NoCall
  /\ calls' = calls + 1
  /\ UNCHANGED <<crashed, deviceIdle>>

\* The drain timer whose handle is in _queueTimeOutId fires.
TimerFires ==
  /\ ~crashed
  /\ queueTimeOutId = "armed"
  /\ queue = <<>> \/ MayQuery
  /\ \E p \in {ProcessQueue(Here)} :
       /\ Becomes(p)
       /\ lastCall' = NoCall
       /\ crashed' = (p.threw # "none")
  /\ UNCHANGED <<calls, deviceIdle>>

\* A drain timer whose handle was overwritten fires.
StrayTimerFires ==
  /\ ~crashed
  /\ strayTimers > 0
  /\ queue = <<>> \/ MayQuery
  /\ \E p \in {ProcessQueue([Here EXCEPT !.strayTimers = @ - 1])} :
       /\ Becomes(p)
       /\ lastCall' = NoCall
       /\ crashed' = (p.threw # "none")
  /\ UNCHANGED <<calls, deviceIdle>>

\* MAX_RESPONSE_TIME after a buffer-space query, its retry timer fires.  Drain
\* timers run QUEUE_DELAY, a tenth of that: at most MaxPending of them are
\* still pending by then.
RetryTimeout ==
  /\ ~crashed
  /\ strayTimers < MaxPending
  /\ \E i \in 1..Len(listeners) :
       /\ listeners[i].cb.to
       /\ \E p \in {RetryCallback([Here EXCEPT !.listeners[i].cb.to = FALSE])} :
            /\ Becomes(p)
            /\ lastCall' = [NoCall EXCEPT !.op = "retry"]
  /\ UNCHANGED <<calls, crashed, deviceIdle>>

\* The transport delivers the device's next response (one complete line)
\* with data v: _onData emits "data".
Receive(v) ==
  /\ ~crashed
  /\ wire # <<>>
  /\ \E p \in {EmitData([Here EXCEPT !.wire = Tail(@)], Len(listeners),
                          [w |-> Head(wire).w, kind |-> Head(wire).kind, data |-> v])} :
       /\ Becomes(p)
       /\ lastCall' = NoCall
       /\ crashed' = (p.threw # "none")
  /\ UNCHANGED calls

\* A device that may answer anything.
OnData(v) == Receive(v) /\ UNCHANGED deviceIdle

\* The device's next response never arrives.
LoseResponse ==
  /\ ~crashed
  /\ wire # <<>>
  /\ Becomes([Here EXCEPT !.wire = Tail(@)])
  /\ lastCall' = NoCall
  /\ UNCHANGED <<calls, crashed, deviceIdle>>

\* The application calls abort().
Abort ==
  /\ ~crashed
  /\ calls < MaxCalls
  /\ \E p \in {AbortCall(Here)} :
       /\ Becomes(p)
       /\ lastCall' = [op |-> "abort", call |-> calls + 1, input |-> NoCall.input,
                       threw |-> p.threw, writes |-> p.writes]
  /\ calls' = calls + 1
  /\ UNCHANGED <<crashed, deviceIdle>>

Next ==
  \/ \E in \in Inputs : Queue(in)
  \/ GetStatus
  \/ TimerFires
  \/ StrayTimerFires
  \/ RetryTimeout
  \/ \E v \in ReplyValues : OnData(v)
  \/ LoseResponse

Spec == Init /\ [][Next]_vars

\* The same plotter with an application that also calls abort(), and only
\* queues instructions that pass the length check.
NextAbort ==
  \/ \E in \in ValidInputs : Queue(in)
  \/ Abort
  \/ TimerFires
  \/ StrayTimerFires
  \/ RetryTimeout
  \/ \E v \in ReplyValues : OnData(v)
  \/ LoseResponse

AbortSpec == Init /\ [][NextAbort]_vars

\* The transport emits "error".
TransportError(listening) ==
  /\ ~crashed
  /\ handshake.installed
  /\ \E p \in {OnError(Here, listening)} :
       /\ Becomes(p)
       /\ lastCall' = [NoCall EXCEPT !.op = "error"]
       /\ crashed' = (p.threw # "none")
  /\ UNCHANGED <<calls, deviceIdle>>

\* The same plotter on a transport that may report an error at any moment.
NextError ==
  \/ \E in \in ValidInputs : Queue(in)
  \/ TimerFires
  \/ StrayTimerFires
  \/ RetryTimeout
  \/ \E v \in ReplyValues : OnData(v)
  \/ LoseResponse
  \/ \E listening \in BOOLEAN : TransportError(listening)

ErrorSpec == Init /\ [][NextError]_vars

-----------------------------------------------------------------------------
(* A plotter on which connect() is called once, with a device that may     *)
(* answer, answer late or not at all; the application may start capturing  *)
(* to a file and disconnect at any moment.                                 *)

InitDisconnected ==
  /\ connected = FALSE
  /\ outputFile = FALSE
  /\ buffer = 0
  /\ queue = <<>>
  /\ queueTimeOutId = "zero"
  /\ strayTimers = 0
  /\ listeners = <<>>
  /\ wire = <<>>
  /\ crashed = FALSE
  /\ calls = 0
  /\ nextId = 1
  /\ transmitted = <<>>
  /\ cbCount = [c \in 1..MaxCalls |-> 0]
  /\ cleared = FALSE
  /\ lastCall = NoCall
  /\ log = <<>>
  /\ deviceIdle = FALSE
  /\ ready = FALSE
  /\ characteristics = "undefined"
  /\ paper = "A"
  /\ orientation = "landscape"
  /\ handshake = [NoHandshake EXCEPT !.transport = FALSE, !.installed = FALSE,
                                     !.stage = "idle"]
  /\ outcome = <<>>
  /\ discarded = {}
  /\ rx = NoInput
  /\ Models = ModelsTable

\* The options given to connect(): a paper size, an orientation, and whether
\* the connect callback queues an instruction.
AllConnectOptions ==
  { ConnectOptions("a4", "", TRUE),
    ConnectOptions("A3", "", FALSE),
    ConnectOptions("", "Portrait", FALSE) }

\* What the device may answer to a write of each kind: an RS-232 error code,
\* free buffer space, its model and options, its model, its buffer size.
Replies(kind) ==
  IF kind = "E" THEN {0, 15}
  ELSE IF kind = "B" THEN {0, 60}
  ELSE IF kind = "A" THEN {-74750, -74700}
  ELSE IF kind = "I" THEN {-7475, -7470}
  ELSE {60}

AllReplies == UNION {Replies(kind) : kind \in {"E", "B", "A", "I", "L"}}

\* What an API call or a callback of the handshake did.
Stepped(op, p) ==
  [op |-> op, call |-> 0, input |-> NoCall.input, threw |-> p.threw,
   writes |-> p.writes, wasConnected |-> connected, capturing |-> outputFile,
   data |-> 0]

\* The application calls connect() on a plotter that was never connected.
Connect(o) ==
  /\ ~crashed
  /\ handshake.stage = "idle"
  /\ \E p \in {ConnectCall(Here, o)} :
       /\ Becomes(p)
       /\ lastCall' = Stepped("connect", p)
  /\ UNCHANGED <<calls, crashed, deviceIdle>>

\* transport.open() calls back, with an error or without.
Opened(error) ==
  /\ ~crashed
  /\ handshake.opening
  /\ \E p \in {OpenCallback(Here, error)} :
       /\ Becomes(p)
       /\ lastCall' = Stepped("opened", p)
       /\ crashed' = (p.threw # "none")
  /\ UNCHANGED <<calls, deviceIdle>>

\* DEVICE_RS232_DELAY after the probe was sent, its timer fires.
ProbeTimeout ==
  /\ ~crashed
  /\ handshake.timeout
  /\ \E p \in {ProbeTimedOut(Here)} :
       /\ Becomes(p)
       /\ lastCall' = Stepped("probeTimeout", p)
       /\ crashed' = (p.threw # "none")
  /\ UNCHANGED <<calls, deviceIdle>>

\* DEVICE_RS232_DELAY after ESC.A was queued, getModel's timer fires.
ModelTimeout ==
  /\ ~crashed
  /\ handshake.timeoutId
  /\ \E p \in {ModelFallback(Here)} :
       /\ Becomes(p)
       /\ lastCall' = Stepped("modelTimeout", p)
       /\ crashed' = (p.threw # "none")
  /\ UNCHANGED <<calls, deviceIdle>>

\* The device's next response reaches the transport's data listener.
DeviceAnswers(v) ==
  /\ connected
  /\ handshake.installed
  /\ wire # <<>>
  /\ v \in Replies(Head(wire).kind)
  /\ Receive(v)
  /\ UNCHANGED deviceIdle

\* The application calls disconnect().
Disconnect ==
  /\ ~crashed
  /\ handshake.stage # "idle"
  /\ calls < MaxCalls
  /\ \E p \in {DisconnectCall(Here)} :
       /\ Becomes(p)
       /\ lastCall' = Stepped("disconnect", p)
  /\ calls' = calls + 1
  /\ UNCHANGED <<crashed, deviceIdle>>

\* The application calls startCapturingToFile().
StartCapturing ==
  /\ ~crashed
  /\ ~outputFile
  /\ calls < MaxCalls
  /\ \E p \in {StartCapturingToFile(Here)} :
       /\ Becomes(p)
       /\ lastCall' = Stepped("startCapturingToFile", p)
  /\ calls' = calls + 1
  /\ UNCHANGED <<crashed, deviceIdle>>

NextConnect ==
  \/ \E o \in AllConnectOptions : Connect(o)
  \/ \E error \in BOOLEAN : Opened(error)
  \/ ProbeTimeout
  \/ ModelTimeout
  \/ TimerFires
  \/ StrayTimerFires
  \/ RetryTimeout
  \/ \E v \in AllReplies : DeviceAnswers(v)
  \/ LoseResponse
  \/ Disconnect
  \/ StartCapturing

ConnectSpec == InitDisconnected /\ [][NextConnect]_vars

-----------------------------------------------------------------------------
(* The same handshake with an application that waits for it to end, and a  *)
(* device that may also identify itself as a model the table does not      *)
(* have.                                                                   *)

\* "9999X" is no key of Models.
ResolveReplies(kind) ==
  IF kind = "A" THEN {-74750, -99990}
  ELSE IF kind = "I" THEN {-7470, -9999}
  ELSE Replies(kind)

AllResolveReplies == UNION {ResolveReplies(kind) : kind \in {"E", "B", "A", "I", "L"}}

\* The device's next response reaches the transport's data listener.
DeviceIdentifies(v) ==
  /\ connected
  /\ handshake.installed
  /\ wire # <<>>
  /\ v \in ResolveReplies(Head(wire).kind)
  /\ Receive(v)
  /\ UNCHANGED deviceIdle

NextResolve ==
  \/ \E o \in AllConnectOptions : Connect(o)
  \/ \E error \in BOOLEAN : Opened(error)
  \/ ProbeTimeout
  \/ ModelTimeout
  \/ TimerFires
  \/ StrayTimerFires
  \/ RetryTimeout
  \/ \E v \in AllResolveReplies : DeviceIdentifies(v)
  \/ LoseResponse

ResolveSpec == InitDisconnected /\ [][NextResolve]_vars

-----------------------------------------------------------------------------
(* A plotter that is connected a second time, after the first connect()    *)
(* failed or after disconnect() or destroy(), to a device that answers     *)
(* every write of the session it is in.                                    *)

\* The application calls destroy() on the first session.
Destroy ==
  /\ ~crashed
  /\ handshake.stage # "idle"
  /\ handshake.attempt = 0 /\ handshake.left = "none"
  /\ calls < MaxCalls
  /\ \E p \in {DestroyCall(Here)} :
       /\ Becomes([p EXCEPT !.handshake.left = "destroy"])
       /\ lastCall' = Stepped("destroy", p)
  /\ calls' = calls + 1
  /\ UNCHANGED <<crashed, deviceIdle>>

\* The application calls disconnect() on the first session.
Leave ==
  /\ ~crashed
  /\ handshake.stage # "idle"
  /\ handshake.attempt = 0 /\ handshake.left = "none"
  /\ calls < MaxCalls
  /\ \E p \in {DisconnectCall(Here)} :
       /\ Becomes([p EXCEPT !.handshake.left = "disconnect"])
       /\ lastCall' = Stepped("disconnect", p)
  /\ calls' = calls + 1
  /\ UNCHANGED <<crashed, deviceIdle>>

\* The application calls connect() again once the transport is closed and
\* the timers of the first connect() are over; the responses to the writes
\* of the closed session never arrive.
Reconnect ==
  /\ ~crashed
  /\ handshake.attempt = 0
  /\ handshake.stage \notin {"idle", "opening"}
  /\ ~connected /\ ~handshake.opening /\ ~handshake.timeout /\ ~handshake.timeoutId
  /\ \E p \in {ReconnectCall([Here EXCEPT !.wire = <<>>])} :
       /\ Becomes(p)
       /\ lastCall' = Stepped("connect", p)
  /\ UNCHANGED <<calls, crashed, deviceIdle>>

\* DEVICE_RS232_DELAY after the second connect() queued ESC.A, the timer of
\* its getModel() fires.
SecondModelTimeout ==
  /\ ~crashed
  /\ handshake.second.timeoutId
  /\ \E p \in {ModelFallback([Here EXCEPT !.ctx = 1])} :
       /\ Becomes(p)
       /\ lastCall' = Stepped("modelTimeout", p)
       /\ crashed' = (p.threw # "none")
  /\ UNCHANGED <<calls, deviceIdle>>

ReconnectOptions == ConnectOptions("a4", "", FALSE)

\* The device is a 7475A that reports an RS-232 error or none.
ReconnectReplies == {0, 15, 60, -74750, -7475}

NextReconnect ==
  \/ Connect(ReconnectOptions)
  \/ Opened(FALSE)
  \/ ProbeTimeout
  \/ ModelTimeout
  \/ SecondModelTimeout
  \/ TimerFires
  \/ StrayTimerFires
  \/ RetryTimeout
  \/ \E v \in ReconnectReplies : DeviceAnswers(v)
  \/ Leave
  \/ Destroy
  \/ Reconnect

ReconnectSpec == InitDisconnected /\ [][NextReconnect]_vars

-----------------------------------------------------------------------------
(* _onData(): the characters read from the transport are buffered until a  *)
(* carriage return, which emits the buffer as a "data" event.              *)

MaxStream == 5       \* characters read from the transport per behaviour
MaxChunk == 2        \* characters handed over by one read

CR == "\r"

\* A framing that emits the buffer and keeps it.
KeepBuffer(r, char) ==
  IF char = CR THEN [r EXCEPT !.events = Append(@, [data |-> r.buffer, left |-> r.buffer])]
  ELSE [r EXCEPT !.buffer = Append(@, char)]

\* The body of the forEach: emit("data", this._buffer) and this._buffer = ""
\* on a carriage return, this._buffer += char otherwise.  An event is recorded
\* with the buffer as it is left after it.
OnDataChar(r, char) ==
  IF char = CR THEN [r EXCEPT !.events = Append(@, [data |-> r.buffer, left |-> <<>>]),
                              !.buffer = <<>>]
  ELSE [r EXCEPT !.buffer = Append(@, char)]

\* data.toString().split("").forEach(...)
RECURSIVE ForEachChar(_, _)
ForEachChar(r, data) ==
  IF data = <<>> THEN r ELSE ForEachChar(OnDataChar(r, Head(data)), Tail(data))

\* _onData(data)
OnDataCall(r, data) == ForEachChar([r EXCEPT !.stream = @ \o data], data)

\* What one read may hand over: up to MaxChunk characters, carriage returns
\* among them.
Chars == {"6", "0", CR}
Chunks == UNION {[1..n -> Chars] : n \in 1..MaxChunk}

\* The transport hands the next characters of the stream to _onData(); no
\* listener of "data" is registered.
Read(data) ==
  /\ Len(rx.stream) + Len(data) <= MaxStream
  /\ rx' = OnDataCall(rx, data)
  /\ lastCall' = [NoCall EXCEPT !.op = "read"]
  /\ UNCHANGED <<connected, outputFile, buffer, queue, queueTimeOutId,
                 strayTimers, listeners, wire, crashed, calls, nextId,
                 transmitted, cbCount, cleared, log, deviceIdle, ready,
                 characteristics, paper, orientation, handshake, outcome,
                 discarded, Models>>

NextFraming == \E data \in Chunks : Read(data)

FramingSpec == Init /\ [][NextFraming]_vars

-----------------------------------------------------------------------------
(* Drawing: one drawLines() call on a connected plotter whose profile,     *)
(* paper, orientation and buffer size the handshake has set.               *)

MaxPoints == 7       \* points of a short list; a long list has 4 times as many

Profiles == {"GENERIC", "7440A", "7470A", "7475A", "7550A"}

\* The buffer sizes of the profiles; the device reports its own.
KnownBuffers == {ModelBuffer(model) : model \in Profiles}

InitDrawing ==
  /\ connected = TRUE
  /\ outputFile = FALSE
  /\ buffer \in KnownBuffers
  /\ queue = <<>>
  /\ queueTimeOutId = "zero"
  /\ strayTimers = 0
  /\ listeners = <<>>
  /\ wire = <<>>
  /\ crashed = FALSE
  /\ calls = 0
  /\ nextId = 1
  /\ transmitted = <<>>
  /\ cbCount = [c \in 1..MaxCalls |-> 0]
  /\ cleared = FALSE
  /\ lastCall = NoCall
  /\ log = <<>>
  /\ deviceIdle = FALSE
  /\ ready = TRUE
  /\ characteristics \in Profiles
  /\ paper \in PapersList(characteristics)
  /\ orientation \in ORIENTATIONS
  /\ handshake = NoHandshake
  /\ outcome = <<>>
  /\ discarded = {}
  /\ rx = NoInput
  /\ Models = Stored(ModelsTable, characteristics, buffer)

\* Points in centimetres.
Points == {<<0, 0>>, <<3, 12>>, <<25, 19>>}

\* The positions of n points, a and b in turn.
PointList(n, a, b) ==
  [i \in 1..(2 * n) |->
     LET point == IF ((i + 1) \div 2) % 2 = 1 THEN a ELSE b
     IN IF i % 2 = 1 THEN point[1] ELSE point[2]]

PointCounts == (0..MaxPoints) \cup {4 * MaxPoints}

\* String(undefined): the line pattern of a call that gives none.
Undefined == <<"u", "n", "d", "e", "f", "i", "n", "e", "d">>

\* Values of options.linePattern, as the strings parseInt() reads.
LinePatterns ==
  { Undefined, <<"a", "b", "c">>, <<"-", "1">>, <<"0">>, <<"3">>, <<"6">>,
    <<"7">>, <<"8">>, <<"9", "9">>, <<"3", ".", "7">>, <<"2", "p", "x">> }

DrawInputs ==
  { [positions |-> PointList(n, ab[1], ab[2]), linePattern |-> Undefined] :
      n \in PointCounts, ab \in Points \X Points }
  \cup { [positions |-> PointList(2, <<0, 0>>, <<3, 12>>), linePattern |-> given] :
           given \in LinePatterns }

\* The application calls drawLines(); an error goes back to the caller.
DrawLines(in) ==
  /\ ~crashed
  /\ calls = 0
  /\ \E p \in {DrawLinesCall(Here, in.positions, in.linePattern, UserCallback(1))} :
       /\ Becomes(p)
       /\ lastCall' = [op |-> "drawLines", call |-> 1, input |-> NoCall.input,
                       threw |-> p.threw, positions |-> in.positions,
                       linePattern |-> in.linePattern]
  /\ calls' = 1
  /\ UNCHANGED <<crashed, deviceIdle>>

NextDrawing == \E in \in DrawInputs : DrawLines(in)

DrawSpec == InitDrawing /\ [][NextDrawing]_vars

-----------------------------------------------------------------------------
(* Conversions: the plotter of InitDrawing converts one point to absolute  *)
(* HPGL coordinates, or one number to an HPGL integer.                     *)

Window == 20         \* integers tried on each side of 0 and of the two limits

\* Coordinates in plotter units.
Units == {0, 1200, 10000}

\* The application has a point converted; a TypeError goes back to it.
ToAbsolute(x, y) ==
  /\ lastCall = NoCall
  /\ lastCall' = [op |-> "toAbsolute", call |-> 0, input |-> NoCall.input,
                  threw |-> ToAbsoluteHpglCoordinates(Here, x, y).threw,
                  x |-> x, y |-> y,
                  result |-> ToAbsoluteHpglCoordinates(Here, x, y)]
  /\ Becomes(Here)
  /\ UNCHANGED <<calls, crashed, deviceIdle>>

IntegerInputs ==
  ((-32768 - Window)..(-32768 + Window)) \cup ((-Window)..Window)
    \cup ((32767 - Window)..(32767 + Window)) \cup {-1000000, 1000000}

\* The application has a number converted.
ToInteger(v) ==
  /\ lastCall = NoCall
  /\ lastCall' = [op |-> "toHpglInteger", call |-> 0, input |-> NoCall.input,
                  threw |-> "none", value |-> v, result |-> ToHpglInteger(v)]
  /\ Becomes(Here)
  /\ UNCHANGED <<calls, crashed, deviceIdle>>

NextConvert ==
  \/ \E x \in Units, y \in Units : ToAbsolute(x, y)
  \/ \E v \in IntegerInputs : ToInteger(v)

ConvertSpec == InitDrawing /\ [][NextConvert]_vars

-----------------------------------------------------------------------------
(* Sending: one send() call on a connected plotter.                        *)

MaxInstruction == 4  \* characters of an instruction given to send()

InitSending ==
  /\ InitDrawing
  /\ characteristics = "7475A"
  /\ buffer = ModelBuffer("7475A")
  /\ paper = "A"
  /\ orientation = "landscape"

SendChars == {"L", "B", "P", "ESC", ".", ";"}

\* The instructions given to send(): every string of the characters but the
\* ESC. prefix alone, which is no instruction.
Instructions ==
  UNION {[1..n -> SendChars] : n \in 1..MaxInstruction} \ {RS232_PREFIX}

\* The application calls send().
SendCall(instruction) ==
  /\ ~crashed
  /\ calls = 0
  /\ \E p \in {Send(Here, instruction, NoCallback, FALSE, "Q")} :
       /\ Becomes(p)
       /\ lastCall' = [op |-> "send", call |-> 1, input |-> NoCall.input,
                       threw |-> p.threw, instruction |-> instruction,
                       writes |-> p.writes]
  /\ calls' = 1
  /\ UNCHANGED <<crashed, deviceIdle>>

NextSending == \E instruction \in Instructions : SendCall(instruction)

SendSpec == InitSending /\ [][NextSending]_vars

-----------------------------------------------------------------------------
(* drawText(text, options) with the default size, rotation and slant, on a *)
(* connected 7475A whose queue then drains.                                *)

MaxText == 3         \* characters of a label

\* CHARACTER_SETS[34] on the characters used here: one code, or a letter, a
\* backspace and an accent.
French(char) ==
  IF char = "é" THEN <<"{">>
  ELSE IF char = "ê" THEN <<"e", "BS", "^">>
  ELSE <<char>>

\* text.split("").map(...).join("")
RECURSIVE Converted(_)
Converted(text) ==
  IF text = <<>> THEN <<>> ELSE French(Head(text)) \o Converted(Tail(text))

\* _toIso646(text, charset)
ToIso646(text, charset) == IF charset = 0 THEN text ELSE Converted(text)

\* "DI" + cos + "," + sin of the rotation, both with four decimals: text is
\* turned by 180 degrees when the paper is in portrait.
DI(p) ==
  IF p.orientation = "landscape"
  THEN <<"D", "I", "1", ".", "0", "0", "0", "0", ",", "0", ".", "0", "0", "0", "0">>
  ELSE <<"D", "I", "-", "1", ".", "0", "0", "0", "0", ",", "0", ".", "0", "0", "0", "0">>

SI == <<"S", "I", "0", ".", "1", "8", "7", "0", ",", "0", ".", "2", "6", "9", "0">>
SL == <<"S", "L", "0", ".", "0", "0", "0", "0">>

\* drawText(text, {charset: charset})
DrawTextCall(p, text, charset) ==
  Do(QueueCall(p, <<"C", "S">> \o NumberToString(charset), NoCallback, NoOptions),
     LAMBDA q1 :
  Do(QueueCall(q1, <<"S", "S">>, NoCallback, NoOptions), LAMBDA q2 :
  Do(QueueCall(q2, SI, NoCallback, NoOptions), LAMBDA q3 :
  Do(QueueCall(q3, DI(q3), NoCallback, NoOptions), LAMBDA q4 :
  Do(QueueCall(q4, SL, NoCallback, NoOptions), LAMBDA q5 :
     QueueCall(q5, <<"L", "B">> \o ToIso646(text, charset), NoCallback, NoOptions))))))

TextChars == {"a", "é", "ê", ";", "\n", ETX}
Texts == UNION {[1..n -> TextChars] : n \in 0..MaxText}

\* The application calls drawText().
DrawText(text, charset) ==
  /\ ~crashed
  /\ calls = 0
  /\ \E p \in {DrawTextCall(Here, text, charset)} :
       /\ Becomes(p)
       /\ lastCall' = [op |-> "drawText", call |-> 1, input |-> NoCall.input,
                       threw |-> p.threw, text |-> text, charset |-> charset,
                       writes |-> p.writes]
  /\ calls' = 1
  /\ UNCHANGED <<crashed, deviceIdle>>

NextLabel ==
  \/ \E text \in Texts, charset \in {0, 34} : DrawText(text, charset)
  \/ TimerFires
  \/ OnData(ModelBuffer("7475A"))

LabelSpec == InitSending /\ [][NextLabel]_vars

-----------------------------------------------------------------------------
(* Decoding: the callbacks getRs232Error() and getStatus() give to send()  *)
(* run on one reply of the device, given as the string the transport read. *)

\* A decoder that reports every reply as no error.
NeverAnError(data) == [code |-> 0, message |-> "No error."]

\* The error object the callback of getRs232Error() makes of a reply.
Rs232Error(data) ==
  LET parsed == ParseInt(data)
      code == IF Len(data) = 0 THEN 0 ELSE IF parsed.nan THEN 99 ELSE parsed.value
  IN IF code = 0 THEN [code |-> 0, message |-> "No error."]
     ELSE IF code = 10
          THEN [code |-> 10, message |-> "New output generated before previous output finished being transmitted."]
     ELSE IF code = 11
          THEN [code |-> 11, message |-> "Invalid character received after first two characters (ESC.)."]
     ELSE IF code = 12
          THEN [code |-> 12, message |-> "Invalid character received while parsing instruction."]
     ELSE IF code = 13 THEN [code |-> 13, message |-> "Parameter out-of-range."]
     ELSE IF code = 14 THEN [code |-> 14, message |-> "Too many parameters received."]
     ELSE IF code = 15 THEN [code |-> 15, message |-> "Framing, parity or overrun error."]
     ELSE IF code = 16 THEN [code |-> 16, message |-> "Input buffer has overflowed."]
     ELSE [code |-> 99, message |-> "Unknown error"]

\* n & mask for a mask of one bit and n >= 0
And(n, mask) == ((n \div mask) % 2) * mask

\* The status object the callback of getStatus() makes of the status word n.
Status(n) ==
  [rollPaper |-> And(n, 1) = 1, cleanPaper |-> And(n, 2) # 2,
   paperAdvance |-> And(n, 4) = 4, bufferEmpty |-> And(n, 8) = 8,
   ready |-> And(n, 16) + And(n, 32) = 0,
   viewEngaged |-> And(n, 16) + And(n, 32) = 16,
   coverOpen |-> And(n, 64) = 64, emulateMode |-> And(n, 128) = 128,
   expandMode |-> And(n, 256) = 256]

\* What the device may answer to ESC.E: nothing, a number, or text.
ErrorReplies ==
  {<<>>, <<"-", "1">>, <<"7", "4", "7", "5", "A">>, <<"a">>}
    \cup {NumberToString(n) : n \in (0..20) \cup {60, 99, 100, 1024}}

\* The reply to ESC.E reaches the callback of getRs232Error().
DecodeError(data) ==
  /\ lastCall = NoCall
  /\ lastCall' = [op |-> "getRs232Error", call |-> 0, input |-> NoCall.input,
                  threw |-> "none", data |-> data, error |-> Rs232Error(data)]
  /\ Becomes(Here)
  /\ UNCHANGED <<calls, crashed, deviceIdle>>

\* The reply to ESC.O reaches the callback of getStatus().
DecodeStatus(n) ==
  /\ lastCall = NoCall
  /\ lastCall' = [op |-> "getStatus", call |-> 0, input |-> NoCall.input,
                  threw |-> "none", data |-> NumberToString(n),
                  status |-> Status(ParseInt(NumberToString(n)).value)]
  /\ Becomes(Here)
  /\ UNCHANGED <<calls, crashed, deviceIdle>>

NextDecode ==
  \/ \E data \in ErrorReplies : DecodeError(data)
  \/ \E n \in 0..511 : DecodeStatus(n)

DecodeSpec == Init /\ [][NextDecode]_vars

-----------------------------------------------------------------------------
(* A device that answers: only replies to buffer-space queries may be      *)
(* lost, timers fire, responses are delivered, and the device reports a    *)
(* free buffer again and again.                                            *)

\* The reply to a buffer-space query never arrives.
LoseReply ==
  /\ ~crashed
  /\ wire # <<>>
  /\ Head(wire).kind = "B"
  /\ Cardinality(Outstanding) < MaxPending
  /\ Becomes([Here EXCEPT !.wire = Tail(@)])
  /\ lastCall' = NoCall
  /\ UNCHANGED <<calls, crashed, deviceIdle>>

\* The device has processed the instructions it was sent: its buffer is free
\* until the next instruction arrives.
DeviceDrains ==
  /\ ~crashed
  /\ ~deviceIdle
  /\ deviceIdle' = TRUE
  /\ lastCall' = NoCall
  /\ log' = <<>>
  /\ UNCHANGED <<connected, outputFile, buffer, queue, queueTimeOutId,
                 strayTimers, listeners, wire, crashed, calls, nextId,
                 transmitted, cbCount, cleared, ready, characteristics, paper,
                 orientation, handshake, outcome, discarded, rx, Models>>

\* A device that reports its whole buffer free in every buffer-space reply
\* once it is idle.
DeviceReplies(v) ==
  /\ Receive(v)
  /\ deviceIdle /\ Head(wire).kind = "B" => v = BufferSize
  /\ deviceIdle' = (deviceIdle /\ transmitted' = transmitted)

NextLive ==
  \/ \E in \in ValidInputs : Queue(in)
  \/ TimerFires
  \/ StrayTimerFires
  \/ RetryTimeout
  \/ \E v \in ReplyValues : DeviceReplies(v)
  \/ LoseReply
  \/ DeviceDrains

Fairness ==
  /\ WF_vars(TimerFires)
  /\ WF_vars(StrayTimerFires)
  /\ WF_vars(RetryTimeout)
  /\ WF_vars(\E v \in ReplyValues : DeviceReplies(v))
  /\ WF_vars(DeviceDrains)

LiveSpec == Init /\ [][NextLive]_vars /\ Fairness

-----------------------------------------------------------------------------
(* A device that never answers: every response is lost, timers fire.  No   *)
(* data event ever runs the handler of an unanswered query, so the model   *)
(* drops it from `listeners` when its retry timer has fired.               *)

RemoveAt(s, i) == SubSeq(s, 1, i - 1) \o SubSeq(s, i + 1, Len(s))

\* MAX_RESPONSE_TIME after a buffer-space query, its retry timer fires.
MuteRetryTimeout ==
  /\ ~crashed
  /\ strayTimers < MaxPending
  /\ \E i \in 1..Len(listeners) :
       /\ listeners[i].cb.to
       /\ \E p \in {RetryCallback([Here EXCEPT !.listeners = RemoveAt(@, i)])} :
            /\ Becomes(p)
            /\ lastCall' = [NoCall EXCEPT !.op = "retry"]
  /\ UNCHANGED <<calls, crashed, deviceIdle>>

NextMute ==
  \/ \E in \in ValidInputs : Queue(in)
  \/ TimerFires
  \/ StrayTimerFires
  \/ MuteRetryTimeout
  \/ LoseResponse

MuteFairness ==
  /\ WF_vars(TimerFires)
  /\ WF_vars(StrayTimerFires)
  /\ WF_vars(MuteRetryTimeout)
  /\ WF_vars(LoseResponse)

MuteSpec == Init /\ [][NextMute]_vars /\ MuteFairness

-----------------------------------------------------------------------------
(* Properties *)

QueueIds == [i \in 1..Len(queue) |-> queue[i].id]
Accepted == [i \in 1..(nextId - 1) |-> i]
Holding == \E i \in 1..Len(listeners) : listeners[i].kind = "rearm"
QueryPending == \E i \in 1..Len(listeners) : listeners[i].cb.type = "B"
TimerPending == queueTimeOutId = "armed" \/ strayTimers > 0

\* C1: as long as the queue has not been cleared, the queued instructions
\* written to the transport, followed by those still queued, are all the
\* accepted instructions in the order they were accepted: none is lost,
\* duplicated or reordered.
C1_Fifo == ~cleared => transmitted \o QueueIds = Accepted

C1_FifoWitness ==
  ~cleared /\ calls = MaxCalls /\ Len(transmitted) >= 3 /\ queue = <<>>

\* C2: at most one response-awaiting write is outstanding (written, and no
\* data event observed since).
C2_AtMostOneAwaiting == Cardinality(Outstanding) <= 1

\* C3: the data a data event passes to the callback of a response-awaiting
\* write is the device's response to that very write.
C3_ResponseAttribution == \A i \in 1..Len(log) : log[i].own

\* C4: while the response to a transmitted waitForResponse command is awaited,
\* no drain timer is pending and no buffer-space query is outstanding.
C4_HoldWhileAwaiting == Holding => ~TimerPending /\ ~QueryPending

\* C5: a reply handler sends the head of the queue only when the data it was
\* given is a buffer-space reply reporting at least the head's length; given
\* less, it sends nothing and re-arms the drain timer.
C5_Backpressure ==
  \A i \in 1..Len(log) :
    log[i].type = "B" =>
      /\ log[i].sent => log[i].kind = "B" /\ log[i].headLen <= log[i].data
      /\ log[i].data < log[i].headLen => ~log[i].sent /\ log[i].rearmed

\* The commands of a queue() input that the loop does not skip.
Kept(in) ==
  SelectSeq(Commands(in.instruction),
            LAMBDA c : ~(in.options.ignoreOutputInstructions /\ Head(c) = "O"))

TooLong(in) == \E i \in 1..Len(Kept(in)) : Len(Kept(in)[i]) + 1 > buffer

C7_NotPoisoned ==
  cleared /\ ~crashed /\ queue # <<>> => TimerPending \/ listeners # <<>>

\* C8: after a queue() call with a callback has returned, exactly one queued
\* command carries that callback, and it is the last one queued.
C8_CallbackOnLast ==
  lastCall.op = "queue" /\ lastCall.input.callback /\ lastCall.threw = "none" =>
    /\ queue # <<>>
    /\ queue[Len(queue)].callback = UserCallback(lastCall.call)
    /\ Cardinality({i \in 1..Len(queue) :
                      queue[i].callback = UserCallback(lastCall.call)}) = 1

AllWritten == Len(transmitted) = nextId - 1

\* C9: with a device that answers, every accepted instruction is eventually
\* written to the transport.
C9_DrainLiveness == ~AllWritten ~> AllWritten

\* queue() was called while the response to a transmitted command was awaited.
C9_QueuedWhileAwaiting ==
  Holding /\ lastCall.op = "queue" /\ queue # <<>> /\ transmitted # <<>>

\* C10: a retry timeout leaves the queue as it is and arms the drain timer,
\* and the queue is drained afterwards.
C10_PollRetry ==
  /\ [][RetryTimeout => queue' = queue /\ queueTimeOutId' = "armed"]_vars
  /\ (lastCall.op = "retry" /\ queue # <<>>) ~> (queue = <<>>)

\* The reply was lost: the retry timer has fired with nothing on its way.
C10_RetryWitness ==
  lastCall.op = "retry" /\ queue # <<>> /\ wire = <<>> /\ queueTimeOutId = "armed"

\* A retry timer of a buffer-space query is pending.
RetryPending == \E i \in 1..Len(listeners) : listeners[i].cb.to

\* C11: with a device that never answers, the controller gives up after a
\* bounded number of retries: from some point on no drain timer and no retry
\* timer is pending any more.
C11_BoundedRetries == <>[](~TimerPending /\ ~RetryPending)

\* C12: every wait has a timeout: while the response to a transmitted
\* waitForResponse command is awaited and no response is on its way, a timer is
\* pending that will end the wait.
C12_NoIndefiniteBlocking ==
  Holding /\ wire = <<>> /\ ~crashed => TimerPending \/ RetryPending

Aborted == lastCall.op = "abort"

C14_AbortKeepsUsable ==
  /\ Aborted => connected /\ ready
  /\ cleared /\ ~crashed /\ queue # <<>> => TimerPending \/ listeners # <<>>

Reported(what) == \E i \in 1..Len(outcome) : outcome[i] = what
Disconnected == lastCall.op = "disconnect" /\ lastCall.wasConnected

\* What disconnect() does on a connected plotter whatever the state of the
\* file capture: the queue is empty, ready is false, ESC.K then IN have been
\* written and the transport is closed.
DisconnectedAndClosed ==
  /\ queue = <<>>
  /\ ~ready
  /\ ~connected
  /\ lastCall.writes = <<Append(RS232_PREFIX, "K"), <<"I", "N", ";">>>>

DefaultProfile ==
  characteristics = "undefined" /\ paper = "A" /\ orientation = "landscape"

Configuration == {<<"R", "O", "0">>, <<"R", "O", "9", "0">>, <<"I", "P">>, <<"I", "W">>}

\* C16: the connect callback is called and "ready" emitted only after the
\* configuration instructions have been queued, and no instruction queued by
\* the connect callback precedes a configuration instruction in the queue.
C16_ReadyAfterConfiguration ==
  /\ \A i \in 1..Len(outcome) :
       outcome[i] \in {"ok", "ready"} =>
         \E j \in 1..(i - 1) : outcome[j] = "configured"
  /\ \A i, j \in 1..Len(queue) :
       i < j /\ queue[i].instruction = PU => queue[j].instruction \notin Configuration

\* C17: when the paper asked for is not in the list of the resolved model, the
\* plotter does not become ready.
C17_UnsupportedPaper ==
  /\ characteristics # "undefined"
  /\ handshake.options.paper # ""
  /\ ToUpperCase(handshake.options.paper) \notin PapersList(characteristics)
  => ~ready /\ ~Reported("ok") /\ ~Reported("ready")

\* C18: when portrait is asked for and the resolved model has no RO
\* instruction, the plotter does not become ready.
C18_UnsupportedOrientation ==
  /\ characteristics # "undefined"
  /\ ToLowerCase(handshake.options.orientation) = "portrait"
  /\ ~HasRO(characteristics)
  => ~ready /\ ~Reported("ok") /\ ~Reported("ready")

ProbeFailed ==
  /\ handshake.stage = "failed"
  /\ ~connected
  /\ ~handshake.installed
  /\ ~ready
  /\ outcome = <<"error">>

\* C19: when, on a transport the application has not closed meanwhile, the
\* probe's timer fires or the probe is answered with a nonzero error code,
\* the connect attempt fails: the connect callback has received an error (and
\* nothing else), the transport is closed, its listeners removed, ready is
\* false, and initialize() does not run afterwards.
C19_LinkProbeFailure ==
  /\ [][/\ handshake.stage = "probing"
         /\ connected
         /\ \/ lastCall'.op = "probeTimeout"
            \/ \E i \in 1..Len(log') : log'[i].type = "probe" /\ log'[i].data # 0
        => ProbeFailed']_vars
  /\ [][handshake.stage = "failed" => ProbeFailed']_vars

\* The probe was answered with error code 15.
C19_ProbeFailedWitness ==
  ProbeFailed /\ \E i \in 1..Len(log) : log[i].type = "probe" /\ log[i].data = 15

\* C20: while a connect attempt on an open transport has not called back,
\* something is pending that will make it go on: the opening of the transport,
\* a timer, or a response of the device.
C20_ConnectCompletes ==
  /\ handshake.stage \in {"opening", "probing", "initializing"}
  /\ handshake.stage = "opening" \/ connected
  /\ outcome = <<>>
  /\ ~crashed
  => \/ handshake.opening
     \/ handshake.timeout
     \/ handshake.timeoutId
     \/ TimerPending
     \/ RetryPending
     \/ wire # <<>>

OiIssued ==
  \/ \E i \in 1..Len(queue) : queue[i].instruction = <<"O", "I">>
  \/ \E i \in 1..Len(listeners) : listeners[i].cb.type = "identify"
  \/ \E i \in 1..Len(handshake.resolved) : handshake.resolved[i].query = "OI"

ResolvedBy(query) ==
  \E i \in 1..Len(handshake.resolved) : handshake.resolved[i].query = query

\* C21: getModel's callback is called at most once; when it is called with
\* the answer to ESC.A the fallback has not started and OI is never issued;
\* OI is issued only once the fallback has started; the data a query's
\* callback passes on is the device's response to that very query (so a late
\* response to ESC.A is not passed on in place of the response to OI); and
\* while no model has been passed on, something is pending that goes on with
\* the resolution.
C21_ModelResolution ==
  /\ Len(handshake.resolved) <= 1
  /\ ResolvedBy("ESC.A") => ~handshake.cancel /\ ~OiIssued
  /\ OiIssued => handshake.cancel
  /\ \A i \in 1..Len(log) :
       \/ log[i].type = "identify"
       \/ log[i].type = "model" /\ ~handshake.cancel
       => log[i].own
  /\ /\ handshake.stage = "initializing"
     /\ handshake.resolved = <<>>
     /\ ~crashed
     => handshake.timeoutId \/ TimerPending \/ RetryPending \/ wire # <<>>

\* The responses that name a model of the table (of its desktop models, the
\* only ones the devices modelled name).
ModelKeys == {-7440, -7470, -7475, -7550}

UnknownModelResolved ==
  /\ handshake.resolved # <<>>
  /\ handshake.resolved[Len(handshake.resolved)].data \notin ModelKeys

\* C22: when getModel's callback is called with a model that is no key of
\* Models, the profile becomes GENERIC and the handshake goes on with the
\* second RS-232 error query, no error being reported and nothing thrown; and
\* once a model is resolved, the connect callback gets an error only for a
\* nonzero answer to that error query.
C22_UnknownModel ==
  /\ [][/\ Len(handshake.resolved') > Len(handshake.resolved)
         /\ UnknownModelResolved'
        => /\ characteristics' = "GENERIC"
           /\ buffer' = 60
           /\ outcome' = outcome
           /\ ~crashed'
           /\ \E i \in 1..Len(listeners') : listeners'[i].cb.type = "error"]_vars
  /\ [][/\ handshake.resolved # <<>>
         /\ Len(outcome') > Len(outcome)
         /\ outcome'[Len(outcome')] = "error"
        => \E i \in 1..Len(log') : log'[i].type = "error" /\ log'[i].data # 0]_vars

\* A plotter that became ready with the GENERIC profile after the device
\* named a model the table does not have.
C22_GenericReadyWitness ==
  /\ UnknownModelResolved
  /\ handshake.resolved[1].data = -9999
  /\ characteristics = "GENERIC"
  /\ ready
  /\ Reported("ready")

\* C23: once the transport has emitted "error", nothing more is written by
\* the flow controller: no queued instruction is transmitted and no
\* buffer-space query is sent.
C23_ErrorHaltsPump ==
  [][handshake.errored =>
       transmitted' = transmitted /\ Len(wire') <= Len(wire)]_vars

\* The positions of the carriage returns of a stream, and the last of them
\* (0 if there is none).
Returns(s) == {i \in 1..Len(s) : s[i] = CR}
LastReturn(s) == IF Returns(s) = {} THEN 0
                 ELSE CHOOSE i \in Returns(s) : \A j \in Returns(s) : j <= i

\* The segments of a stream that a carriage return ends, without it.
RECURSIVE Segments(_)
Segments(s) ==
  IF Returns(s) = {} THEN <<>>
  ELSE LET end == LastReturn(s)
           start == LastReturn(SubSeq(s, 1, end - 1))
       IN Append(Segments(SubSeq(s, 1, start)), SubSeq(s, start + 1, end - 1))

\* C24: however the stream is split across reads, the "data" events emitted
\* are the segments of the whole stream that a carriage return ends, in
\* order and without the carriage return; the characters after the last
\* carriage return are in the buffer; and the buffer is empty after each
\* emission.
C24_ResponseFraming ==
  /\ [i \in 1..Len(rx.events) |-> rx.events[i].data] = Segments(rx.stream)
  /\ rx.buffer = SubSeq(rx.stream, LastReturn(rx.stream) + 1, Len(rx.stream))
  /\ \A i \in 1..Len(rx.events) : rx.events[i].left = <<>>

\* Two events, the second a response of two characters that took more than
\* one read, and a character of the next response buffered.
C24_FramingWitness ==
  /\ Len(rx.events) = 2
  /\ Len(rx.events[2].data) = 2
  /\ rx.buffer # <<>>


-----------------------------------------------------------------------------
(* drawLines() *)

\* The instructions in the queue, oldest first.
Queued == [i \in 1..Len(queue) |-> queue[i].instruction]

IsPA(instruction) == Len(instruction) >= 2 /\ SubSeq(instruction, 1, 2) = <<"P", "A">>

\* C25: for every point list and every known buffer capacity, each PA
\* instruction drawLines() has queued is, with its terminator, no longer than
\* the buffer of the device, and the call did not throw the overflow error.
C25_ChunkSizeBound ==
  lastCall.op = "drawLines" =>
    /\ lastCall.threw # "RangeError"
    /\ \A i \in 1..Len(queue) :
         IsPA(Queued[i]) => Len(Terminate(Queued[i])) <= buffer

\* drawLines() had to split its points over several PA instructions.
C25_SplitWitness ==
  /\ lastCall.op = "drawLines"
  /\ lastCall.threw = "none"
  /\ Cardinality({i \in 1..Len(queue) : IsPA(Queued[i])}) >= 2


\* The numbers a PA instruction carries.
Coordinates(instruction) ==
  LET fields == Pieces(SubSeq(instruction, 3, Len(instruction)), {","})
  IN [k \in 1..Len(fields) |-> ParseInt(fields[k]).value]

RECURSIVE Concatenated(_)
Concatenated(lists) ==
  IF lists = <<>> THEN <<>> ELSE Head(lists) \o Concatenated(Tail(lists))

\* The input points in plotter units, margins subtracted and one axis
\* mirrored, the margins of a paper that defines none being zero.
Transformed(positions) ==
  [i \in 1..Len(positions) |->
     LET first == IF i % 2 = 1 THEN i ELSE i - 1
         c == ZeroMarginCoordinates(Here, ToPlotterUnits(positions[first]),
                                    ToPlotterUnits(positions[first + 1]))
     IN IF i % 2 = 1 THEN c.x ELSE c.y]

\* The queue holds a line type, PD, PA instructions and PU, the PA
\* instructions carrying the transformed points in order.
DrawnAs(positions) ==
  /\ Len(queue) >= 4
  /\ StartsWith(Queued[1], <<"L", "T">>)
  /\ Queued[2] = <<"P", "D">>
  /\ Queued[Len(queue)] = PU
  /\ \A i \in 3..(Len(queue) - 1) : IsPA(Queued[i])
  /\ Concatenated([i \in 1..(Len(queue) - 3) |-> Coordinates(Queued[i + 2])])
       = Transformed(positions)

\* C26: for every non-empty point list, drawLines() queues PD, one PA per
\* chunk and PU, and the coordinates of the chunks, concatenated, are the
\* transformed input points in their order.
C26_ChunkRoundTrip ==
  lastCall.op = "drawLines" /\ lastCall.positions # <<>> => DrawnAs(lastCall.positions)


\* The value given as line pattern is the integer n, written as such.
IsInteger(given, n) == given = NumberToString(n)

-----------------------------------------------------------------------------
(* Conversions *)

\* The point whose absolute HPGL coordinates are c, the margins of a paper
\* that defines none being zero.
FromAbsolute(p, c) ==
  LET m == IF HasMargins(p.characteristics, p.paper)
           THEN Margins(p.characteristics, p.paper, p.orientation)
           ELSE [left |-> 0, top |-> 0]
      short == Short(p.characteristics, p.paper)
  IN IF p.orientation = "landscape"
     THEN [x |-> c.x + m.left, y |-> (short - c.y) + m.top]
     ELSE [x |-> (short - c.x) + m.left, y |-> c.y + m.top]

\* C28: for both orientations and every paper of every profile, those that
\* define no margins included, _toAbsoluteHpglCoordinates() is defined,
\* subtracts the left and top margins and mirrors y (landscape) or x
\* (portrait) against the short extent of the paper, and its inverse gives
\* the point back.
C28_CoordinateRoundTrip ==
  lastCall.op = "toAbsolute" =>
    /\ lastCall.result.threw = "none"
    /\ lastCall.result = ZeroMarginCoordinates(Here, lastCall.x, lastCall.y)
    /\ FromAbsolute(Here, lastCall.result) = [x |-> lastCall.x, y |-> lastCall.y]

\* C29: for every integer v, _toHpglInteger(v) lies in -32768..32767, is v
\* when v is in that range, 32767 when v is larger and -32768 when v is
\* smaller.
C29_IntegerClamping ==
  lastCall.op = "toHpglInteger" =>
    LET v == lastCall.value
        r == lastCall.result
    IN /\ r >= -32768 /\ r <= 32767
       /\ (v >= -32768 /\ v <= 32767) => r = v
       /\ v > 32767 => r = 32767
       /\ v < -32768 => r = -32768

\* A number above the range was clamped.
C29_ClampedWitness ==
  /\ lastCall.op = "toHpglInteger"
  /\ lastCall.value > 32767
  /\ lastCall.result = 32767


-----------------------------------------------------------------------------
(* send() *)

-----------------------------------------------------------------------------
(* Decoding *)

C32_StatusDecoding ==
  lastCall.op = "getStatus" =>
    LET n == ParseInt(lastCall.data).value
        Set(mask) == (n \div mask) % 2 = 1
        status == lastCall.status
    IN /\ status.rollPaper <=> Set(1)
       /\ status.cleanPaper <=> Set(2)
       /\ status.paperAdvance <=> Set(4)
       /\ status.bufferEmpty <=> Set(8)
       /\ status.viewEngaged <=> Set(16)
       /\ status.coverOpen <=> Set(64)
       /\ status.emulateMode <=> Set(128)
       /\ status.expandMode <=> Set(256)
       /\ status.ready <=> (~Set(16) /\ ~Set(32))


-----------------------------------------------------------------------------
(* Flow control, continued *)

\* C33: every transmission of a queued instruction follows a buffer-space
\* reply of its own: a step transmits a queued instruction only when it
\* delivers the reply to a buffer-space query, and then only one.
C33_OneReplyOneTransmission ==
  [][transmitted' # transmitted =>
       /\ Len(transmitted') = Len(transmitted) + 1
       /\ wire # <<>> /\ Head(wire).kind = "B"]_vars


\* C34: the bytes written for a queued instruction, its terminator included,
\* never exceed the free space reported by the buffer-space reply on which
\* the instruction was sent.
C34_NoBufferOverrun ==
  \A e \in 1..Len(log) :
    (log[e].type = "B" /\ log[e].kind = "B" /\ log[e].sent) =>
      log[e].bytes <= log[e].data


\* C35: whenever the buffer-space reply handler of a drain cycle runs, the
\* queue is not empty: the handler never reads the head of an empty queue.
C35_HandlerPrecondition ==
  \A e \in 1..Len(log) : log[e].type = "B" => log[e].headLen > 0


-----------------------------------------------------------------------------
(* The handshake, continued *)

\* C36: during connect() no HP-GL instruction, that is, no instruction
\* without the ESC. prefix, is written to the transport before the reply to
\* the buffer-size query ESC.L has been received and the plotter made ready.
C36_HandshakeOrder ==
  [][\A i \in 1..Len(queue) :
       (/\ \E t \in 1..Len(transmitted') : transmitted'[t] = queue[i].id
        /\ \A t \in 1..Len(transmitted) : transmitted[t] # queue[i].id
        /\ ~StartsWith(queue[i].instruction, RS232_PREFIX))
       => handshake.stage = "done"]_vars

-----------------------------------------------------------------------------
(* Connecting again *)

\* C37: the callback of each connect() call is invoked at most once, also
\* when a first connect() failed on the probe's timeout and connect() is
\* called again.
C37_ConnectCallbackOnce ==
  \A n \in 0..1 :
    Cardinality({i \in 1..Len(handshake.called) : handshake.called[i] = n}) <= 1

\* C38: after disconnect() or destroy(), in whatever state the queue was, a
\* second connect() to a device that answers goes on to Ready: until the
\* plotter is ready or the device's error was passed to the callback, no
\* callback has thrown and a timer or a response is pending that goes on
\* with the handshake.
C38_ReconnectAfterDisconnect ==
  (/\ handshake.attempt = 1
   /\ handshake.left # "none"
   /\ ~ready
   /\ \A i \in 1..Len(handshake.called) : handshake.called[i] # 1)
    => /\ ~crashed
       /\ \/ handshake.opening
          \/ handshake.timeout
          \/ handshake.second.timeoutId
          \/ TimerPending
          \/ RetryPending
          \/ wire # <<>>

\* C39: storing the buffer size a device reported changes no entry of the
\* Models table: another Plotter instance, or a later session, finds the
\* original buffer value of each model.
C39_ModelsTableKept == Models = ModelsTable

-----------------------------------------------------------------------------
(* Labels *)

\* C40: drawText(text) queues exactly one LB instruction, the last of its
\* six instructions, and what is written for it is "LB", the text in the
\* character set asked for, and ETX - whatever characters the text has.
C40_LabelIntegrity ==
  lastCall.op = "drawText" =>
    /\ Len(queue) = 6
    /\ Cardinality({i \in 1..Len(queue) :
                      StartsWith(queue[i].instruction, <<"L", "B">>)}) = 1
    /\ Terminate(queue[6].instruction)
         = <<"L", "B">> \o ToIso646(lastCall.text, lastCall.charset) \o <<ETX>>

=============================================================================
